---- MODULE Spec2Model ----
(***************************************************************************)
(* Resilient session manager of the Deep MM API node.js examples:          *)
(*   - connect() (connection.js in its two variants: one fixed server,     *)
(*     or a list of servers with a random start), the reconnect loop with  *)
(*     its watchdog timer;                                                 *)
(*   - createGetIdToken() (authentication.js), the Cognito id-token cache  *)
(*     with login, refresh and claim extraction.                           *)
(* Every JavaScript callback (timer callback, WebSocket event handler,     *)
(* promise continuation) runs to completion on the single event-loop       *)
(* thread, so each is one atomic action here.                              *)
(***************************************************************************)
EXTENDS Integers, Sequences, FiniteSets, TLC

\* ------------------------------------------------------------------ bounds
\* Largest number of connection attempts explored (openTimeout is unbounded
\* in the code; the watchdog is not taken beyond this many attempts).
MaxAttempts == 5
\* Largest number of inbound frames explored.
MaxMessages == 2
\* Largest number of getIdToken() calls awaiting the identity provider at once.
MaxPending == 2
\* Longest handshake time (in seconds) a server promises to accept within.
MaxHandshake == 2
\* Longest time (in seconds) the identity provider takes to answer a command
\* when it is only required to answer successfully.
MaxLatency == 90
\* Clock time (in seconds) up to which a run in which a command was overdue
\* is followed.
MaxOverdueTime == 240

\* ================================================================ connect()

VARIABLES
    variant,                 \* "single" (one SERVER) or "pool" (SERVER_LIST)
    started,                 \* connect() has been called
    startIndex,              \* the serverIndex drawn at connect()
    serverIndex,             \* let serverIndex (0-based, as in the code)
    ws,                      \* let ws: 0 is null, else the id of a transport
    connectionTimeoutTimer,  \* let connectionTimeoutTimer: 0 is null, else a timer id
    openTimeout,             \* let openTimeout
    attempts,                \* attempt i created transport i and timer i
    onOpenCalls,             \* log of onopen(channel) invocations
    onMessageCalls,          \* log of onmessage(channel, event) invocations
    accepting,               \* indexes of the servers that promise to accept every attempt
    handshake,               \* seconds within which they accept (0: no promise made)
    now,           \* Date.now() / 1000, in seconds since the manager was built
    lifetime,      \* validity the identity provider gives each id token
    refreshToken,  \* let refreshToken: <<>> is null, <<r>> a value
    idToken,       \* let idToken
    authTime,      \* let authTime
    exp,           \* let exp
    pending,       \* the getIdToken() calls suspended at their await, in call order
    last,          \* the latest getIdToken() event (call, return or throw)
    intervals,     \* the setInterval timers of the application's onopen
    lastSent,      \* the latest ws.send of the application: <<>> or <<message>>
    sentCount,     \* per channel, the subscribe and token-only messages sent
    overdue        \* some command stayed unanswered for a whole interval period

connVars == <<variant, started, startIndex, serverIndex, ws,
              connectionTimeoutTimer, openTimeout, attempts,
              onOpenCalls, onMessageCalls, accepting, handshake>>
authVars == <<now, lifetime, refreshToken, idToken, authTime, exp,
              pending, last>>
appVars == <<intervals, lastSent, sentCount, overdue>>
vars == <<connVars, authVars, appVars>>

SERVER == "wss://api.deepmm.com"
SERVER_LIST == <<"wss://deist.deepmm.com", "wss://hayek.deepmm.com">>

\* The endpoints of the running variant, in order.
Pool == IF variant = "single" THEN <<SERVER>> ELSE SERVER_LIST

\* Math.floor(Math.random() * SERVER_LIST.length): any index of the list.
StartIndexes == IF variant = "single" THEN {0} ELSE 0..(Len(SERVER_LIST) - 1)

\* serverIndex = serverIndex == SERVER_LIST.length - 1 ? 0 : serverIndex + 1
\* (the single-server variant has no index: it stays put).
StuckServerIndex(i) == i
NextServerIndex(i) ==
    IF variant = "single" THEN i
    ELSE IF i = Len(SERVER_LIST) - 1 THEN 0 ELSE i + 1

\* openTimeout += 1
DoubledOpenTimeout(t) == 2 * t
NextOpenTimeout(t) == t + 1

\* try { ws.close(); } catch {} : a null ws throws a TypeError that is caught;
\* close() on a CONNECTING or OPEN transport closes it (a transport closed
\* while CONNECTING never raises open); on a closed one it does nothing.
KeepTransport(as, w) == as
CloseTransport(as, w) ==
    IF w = 0 THEN as
    ELSE [as EXCEPT ![w].sock = "closed"]

\* Whether an exception leaves the try { ws.close(); } catch {} statement:
\* ws.close() throws a TypeError when ws is null, the empty catch swallows it.
UncaughtClose(w) == w = 0
CloseEscapes(w) == FALSE

\* What makeConnection() finds in ws when it starts.
Previous(as, w) == IF w = 0 THEN "absent" ELSE as[w].sock

\* makeConnection(): discard the old transport, create transport and timer
\* number Len(attempts)+1 for the server at index idx, watchdog of t seconds.
\* An exception escaping the discard would end the run before both.
MakeConnection(as, w, idx, t) ==
    IF CloseEscapes(w) THEN as
    ELSE Append(CloseTransport(as, w),
                [server |-> idx,
                 url    |-> Pool[idx + 1],
                 delay  |-> t,
                 prev   |-> Previous(as, w),
                 sock   |-> "connecting",
                 opened |-> FALSE,
                 timer  |-> "armed"])

\* clearTimeout(connectionTimeoutTimer) inside ws.onopen: cancels the timer
\* the variable holds (no effect on a timer that already fired).
LeakTimer(as, tm) == as
ClearTimer(as, tm) ==
    IF tm # 0 /\ as[tm].timer = "armed"
    THEN [as EXCEPT ![tm].timer = "cleared"]
    ELSE as

\* onopen(ws) inside ws.onopen of transport s: the application's callback is
\* handed the transport the shared variable ws holds.
SkipOnOpen(log, s, w) == log
CallOnOpen(log, s, w) == Append(log, [by |-> s, channel |-> w])

\* onmessage(ws, event) inside ws.onmessage of transport s: one call per
\* message event, with the transport the shared variable ws holds.
CallOnMessageTwice(log, s, w) ==
    Append(Append(log, [by |-> s, channel |-> w]), [by |-> s, channel |-> w])
CallOnMessage(log, s, w) == Append(log, [by |-> s, channel |-> w])

\* The closure variables before connect() runs.
ModuleLoad ==
    /\ started = FALSE
    /\ startIndex = 0
    /\ serverIndex = 0
    /\ ws = 0
    /\ connectionTimeoutTimer = 0
    /\ openTimeout = 1
    /\ attempts = <<>>
    /\ onOpenCalls = <<>>
    /\ onMessageCalls = <<>>

\* Either variant, facing servers that promise nothing.
ConnInit ==
    /\ variant \in {"single", "pool"}
    /\ accepting = {}
    /\ handshake = 0
    /\ ModuleLoad

\* connect(onopen, onmessage): draws the start index, runs makeConnection()
\* once and returns.
Connect ==
    /\ ~started
    /\ \E s \in StartIndexes :
        /\ startIndex' = s
        /\ serverIndex' = s
        /\ attempts' = MakeConnection(attempts, ws, s, openTimeout)
    /\ started' = TRUE
    /\ ws' = Len(attempts')
    /\ connectionTimeoutTimer' = Len(attempts')
    /\ UNCHANGED <<variant, accepting, handshake, openTimeout, onOpenCalls,
                   onMessageCalls>>
    /\ UNCHANGED authVars
    /\ UNCHANGED appVars

\* The setTimeout callback of attempt t: rotate, lengthen, re-attempt.
WatchdogFire(t) ==
    /\ started
    /\ t \in DOMAIN attempts
    /\ attempts[t].timer = "armed"
    /\ Len(attempts) < MaxAttempts
    /\ serverIndex' = NextServerIndex(serverIndex)
    /\ openTimeout' = NextOpenTimeout(openTimeout)
    /\ attempts' = MakeConnection([attempts EXCEPT ![t].timer = "fired"],
                                  ws, serverIndex', openTimeout')
    /\ ws' = Len(attempts')
    /\ connectionTimeoutTimer' = Len(attempts')
    /\ UNCHANGED <<variant, accepting, handshake, started, startIndex,
                   onOpenCalls, onMessageCalls>>
    /\ UNCHANGED authVars
    /\ UNCHANGED appVars

\* Transport s raises open: the ws.onopen handler assigned to it runs. The
\* handler reads the shared variables connectionTimeoutTimer and ws.
OnOpenEvent(s) ==
    /\ s \in DOMAIN attempts
    /\ attempts[s].sock = "connecting"
    /\ attempts' = ClearTimer([attempts EXCEPT ![s].sock = "open",
                                               ![s].opened = TRUE],
                              connectionTimeoutTimer)
    /\ connectionTimeoutTimer' = 0
    /\ onOpenCalls' = CallOnOpen(onOpenCalls, s, ws)
    /\ UNCHANGED <<variant, accepting, handshake, started, startIndex,
                   serverIndex, ws,
                   openTimeout, onMessageCalls>>

\* The same with a callback onopen that touches nothing of the model.
TransportOpen(s) ==
    /\ OnOpenEvent(s)
    /\ UNCHANGED authVars
    /\ UNCHANGED appVars

\* Transport s receives a frame: the ws.onmessage handler assigned to it runs.
TransportMessage(s) ==
    /\ s \in DOMAIN attempts
    /\ attempts[s].sock = "open"
    /\ Len(onMessageCalls) < MaxMessages
    /\ onMessageCalls' = CallOnMessage(onMessageCalls, s, ws)
    /\ UNCHANGED <<variant, accepting, handshake, started, startIndex,
                   serverIndex, ws,
                   connectionTimeoutTimer, openTimeout, attempts, onOpenCalls>>
    /\ UNCHANGED authVars
    /\ UNCHANGED appVars

\* Transport s fails to connect, or drops after it opened: no handler is
\* assigned to error or close, so only the transport changes.
TransportClose(s) ==
    /\ s \in DOMAIN attempts
    /\ attempts[s].sock \in {"connecting", "open"}
    /\ attempts' = [attempts EXCEPT ![s].sock = "closed"]
    /\ UNCHANGED <<variant, accepting, handshake, started, startIndex,
                   serverIndex, ws,
                   connectionTimeoutTimer, openTimeout, onOpenCalls,
                   onMessageCalls>>
    /\ UNCHANGED authVars
    /\ UNCHANGED appVars

\* ======================================================== createGetIdToken()

None == <<>>
Some(x) == <<x>>

\* The instants at which something happens, chosen around the two thresholds
\* of getIdToken for a token minted at 0 with either lifetime.
Instants == {0, 15, 20, 3480, 3600, 3605}
\* Validity of the id tokens the identity provider issues (its configuration).
Lifetimes == {130, 3600}

\* The arguments of createGetIdToken captured by the closure.
username == "username"
password == "password"

\* An id token is header.payload.signature; the payload is the base64 of the
\* JSON of the claims (<<claims>>), or text that decodes to no JSON (<<>>).
IdTokenOf(claims) ==
    [header |-> "header", payload |-> Some(claims), signature |-> "signature"]
MalformedIdToken ==
    [header |-> "header", payload |-> None, signature |-> "signature"]

\* extractIdTokenClaims(): split('.')[1], base64-decode, JSON.parse (which
\* throws on text that is no JSON, leaving authTime and exp as they were),
\* then authTime = claims['auth_time'], exp = claims['exp'].
ExtractIdTokenClaims(tok, a, e) ==
    IF tok.payload = None
    THEN [threw |-> TRUE, authTime |-> a, exp |-> e]
    ELSE [threw |-> FALSE,
          authTime |-> Some(tok.payload[1].auth_time),
          exp |-> Some(tok.payload[1].exp)]

\* !idToken || (Date.now() / 1000) - authTime > 3600
\* (a null authTime counts as 0 in the subtraction, and the wall clock is
\* far more than 3600 s past the epoch).
LoginOnlyOnce(tok, a, t) == tok = None
NeedsLogin(tok, a, t) ==
    tok = None \/ (IF a = None THEN TRUE ELSE t - a[1] > 3600)

\* exp - (Date.now() / 1000) < 120  (a null exp counts as 0)
RefreshUnderCeiling(e, t) == IF e = None THEN TRUE ELSE e[1] - t < 3600
RefreshWhenExpired(e, t) == IF e = None THEN TRUE ELSE e[1] - t < 0
NeedsRefresh(e, t) == IF e = None THEN TRUE ELSE e[1] - t < 120

\* The if / else if of getIdToken.
RefreshFirst(tok, a, e, t) ==
    IF tok # None /\ NeedsRefresh(e, t) THEN "refresh"
    ELSE IF NeedsLogin(tok, a, t) THEN "login"
    ELSE "cache"
Branch(tok, a, e, t) ==
    IF NeedsLogin(tok, a, t) THEN "login"
    ELSE IF NeedsRefresh(e, t) THEN "refresh"
    ELSE "cache"

\* The InitiateAuthCommand each flow builds.
UserPasswordCommand ==
    [AuthFlow |-> "USER_PASSWORD_AUTH", USERNAME |-> username,
     PASSWORD |-> password, REFRESH_TOKEN |-> None]
RefreshCommand(rt) ==
    [AuthFlow |-> "REFRESH_TOKEN_AUTH", USERNAME |-> "",
     PASSWORD |-> "", REFRESH_TOKEN |-> rt]

\* The four variables of the closure.
Credential ==
    [refreshToken |-> refreshToken, idToken |-> idToken,
     authTime |-> authTime, exp |-> exp]

\* What is remembered of the credential a call saw when it was made.
Seen == [hadToken |-> idToken # None, exp |-> exp]

\* `last` when the latest step was no step of getIdToken(). Otherwise it
\* tells what the latest step did: the call it belongs to (its branch, the
\* credential `pre` the call saw when it was made, the commands it has sent),
\* the response it consumed and what it returned.
NoEvent ==
    [event |-> "none", branch |-> "none", pre |-> Seen,
     nsent |-> 0, resp |-> None, ret |-> None]

AuthInit ==
    /\ now = 0
    /\ lifetime \in Lifetimes
    /\ refreshToken = None
    /\ idToken = None
    /\ authTime = None
    /\ exp = None
    /\ pending = <<>>
    /\ last = NoEvent

\* Time passes to the next instant of the grid.
Advance(grid) ==
    /\ \E t \in grid :
        /\ t > now
        /\ \A u \in grid : u > now => t <= u
        /\ now' = t
    /\ last' = NoEvent
    /\ UNCHANGED <<lifetime, refreshToken, idToken, authTime, exp, pending>>

Tick ==
    /\ Advance(Instants)
    /\ UNCHANGED connVars
    /\ UNCHANGED appVars

\* pending without its element number i.
Without(q, i) == [k \in 1..(Len(q) - 1) |-> IF k < i THEN q[k] ELSE q[k + 1]]

\* getIdToken() up to its await: the cached token is returned at once, a
\* login or refresh sends its command and suspends. k is what the caller
\* attached with .then() to the promise (<<>>: left to the caller).
GetIdTokenCall(k) ==
    /\ LET b == Branch(idToken, authTime, exp, now)
           cmd == IF b = "login" THEN UserPasswordCommand
                  ELSE RefreshCommand(refreshToken)
       IN IF b = "cache"
          THEN /\ last' = [event |-> "return", branch |-> b,
                           pre |-> Seen, nsent |-> 0,
                           resp |-> None, ret |-> idToken]
               /\ pending' = pending
          ELSE /\ Len(pending) < MaxPending
               /\ pending' = Append(pending,
                        [at |-> now, branch |-> b, pre |-> Seen,
                         sent |-> cmd, nsent |-> 1, then |-> k])
               /\ last' = [event |-> "call",
                           branch |-> b, pre |-> Seen, nsent |-> 1,
                           resp |-> None, ret |-> None]
    /\ UNCHANGED <<now, lifetime, refreshToken, idToken, authTime, exp>>

GetIdToken ==
    /\ GetIdTokenCall(None)
    /\ UNCHANGED connVars
    /\ UNCHANGED appVars

\* What the identity provider may answer to the command of pending call s
\* (InitiateAuth): a token minted at a time between the call and now and
\* valid for `lifetime`, whose auth_time is the time of the login (a refresh
\* keeps the auth_time of the login that issued the refresh token); or an
\* error (bad credentials, network error, expired refresh token); or a token
\* whose payload decodes to no JSON.
IdpResponses(s) ==
    LET cmd == pending[s].sent
        login == cmd.AuthFlow = "USER_PASSWORD_AUTH"
        err == [ok |-> FALSE, IdToken |-> None, RefreshToken |-> None]
        Ok(mint) ==
            [ok |-> TRUE,
             RefreshToken |-> IF login THEN Some([session |-> mint])
                              ELSE None,
             IdToken |-> Some(IdTokenOf(
                 [auth_time |-> IF login THEN mint
                                ELSE cmd.REFRESH_TOKEN[1].session,
                  exp |-> mint + lifetime]))]
        bad == [ok |-> TRUE,
                RefreshToken |-> IF login THEN Some([session |-> now])
                                 ELSE None,
                IdToken |-> Some(MalformedIdToken)]
    IN IF ~login /\ cmd.REFRESH_TOKEN = None THEN {err}
       ELSE {err, bad, Ok(pending[s].at), Ok(now)}

\* userPasswordAuth() from its await on: client.send throws on an error
\* response; otherwise refreshToken and idToken are assigned, then
\* extractIdTokenClaims() runs.
UserPasswordAuthSwallow(cred, resp) ==
    IF ~resp.ok THEN [threw |-> FALSE, cred |-> cred]
    ELSE LET c1 == [cred EXCEPT !.refreshToken = resp.RefreshToken,
                                !.idToken = resp.IdToken]
             x == ExtractIdTokenClaims(c1.idToken[1], c1.authTime, c1.exp)
         IN [threw |-> x.threw,
             cred |-> [c1 EXCEPT !.authTime = x.authTime, !.exp = x.exp]]
UserPasswordAuthKeepsToken(cred, resp) ==
    IF ~resp.ok THEN [threw |-> TRUE, cred |-> cred]
    ELSE LET c1 == [cred EXCEPT !.refreshToken = resp.RefreshToken]
             x == ExtractIdTokenClaims(resp.IdToken[1], c1.authTime, c1.exp)
         IN [threw |-> x.threw,
             cred |-> [c1 EXCEPT !.authTime = x.authTime, !.exp = x.exp]]
UserPasswordAuth(cred, resp) ==
    IF ~resp.ok THEN [threw |-> TRUE, cred |-> cred]
    ELSE LET c1 == [cred EXCEPT !.refreshToken = resp.RefreshToken,
                                !.idToken = resp.IdToken]
             x == ExtractIdTokenClaims(c1.idToken[1], c1.authTime, c1.exp)
         IN [threw |-> x.threw,
             cred |-> [c1 EXCEPT !.authTime = x.authTime, !.exp = x.exp]]

\* refreshTokenAuth() from its await on: as above, refreshToken untouched.
RefreshTokenAuthTakesRefreshToken(cred, resp) ==
    IF ~resp.ok THEN [threw |-> TRUE, cred |-> cred]
    ELSE LET c1 == [cred EXCEPT !.refreshToken = resp.RefreshToken,
                                !.idToken = resp.IdToken]
             x == ExtractIdTokenClaims(c1.idToken[1], c1.authTime, c1.exp)
         IN [threw |-> x.threw,
             cred |-> [c1 EXCEPT !.authTime = x.authTime, !.exp = x.exp]]
RefreshTokenAuthKeepsClaims(cred, resp) ==
    IF ~resp.ok THEN [threw |-> TRUE, cred |-> cred]
    ELSE [threw |-> resp.IdToken[1].payload = None,
          cred |-> [cred EXCEPT !.idToken = resp.IdToken]]
RefreshTokenAuth(cred, resp) ==
    IF ~resp.ok THEN [threw |-> TRUE, cred |-> cred]
    ELSE LET c1 == [cred EXCEPT !.idToken = resp.IdToken]
             x == ExtractIdTokenClaims(c1.idToken[1], c1.authTime, c1.exp)
         IN [threw |-> x.threw,
             cred |-> [c1 EXCEPT !.authTime = x.authTime, !.exp = x.exp]]

\* The tail of getIdToken after the await: return idToken, unless the
\* awaited flow threw, which rejects the call.
GetIdTokenResult(r) == IF r.threw THEN None ELSE r.cred.idToken

\* The response of the command of pending call s arrives: the continuation of
\* userPasswordAuth or refreshTokenAuth runs, then getIdToken returns
\* idToken (or rejects). The two run in the same turn of the event loop;
\* the responses of two commands arrive in separate turns.
ResponseArrives(s, resp) ==
    /\ s \in DOMAIN pending
    /\ LET p == pending[s]
           r == IF p.branch = "login"
                THEN UserPasswordAuth(Credential, resp)
                ELSE RefreshTokenAuth(Credential, resp)
       IN /\ refreshToken' = r.cred.refreshToken
          /\ idToken' = r.cred.idToken
          /\ authTime' = r.cred.authTime
          /\ exp' = r.cred.exp
          /\ last' = [event |-> IF r.threw THEN "throw" ELSE "return",
                      branch |-> p.branch, pre |-> p.pre,
                      nsent |-> p.nsent, resp |-> Some(resp),
                      ret |-> GetIdTokenResult(r)]
    /\ pending' = Without(pending, s)
    /\ UNCHANGED <<now, lifetime>>

Response(s) ==
    /\ s \in DOMAIN pending
    /\ \E resp \in IdpResponses(s) : ResponseArrives(s, resp)
    /\ UNCHANGED connVars
    /\ UNCHANGED appVars

\* ============================================================ application

\* The application before connect(): no interval set, nothing sent.
AppInit ==
    /\ intervals = <<>>
    /\ lastSent = None
    /\ sentCount = [c \in 1..MaxAttempts |-> [subscribe |-> 0, token |-> 0]]
    /\ overdue = FALSE

\* The callbacks the application attaches to getIdToken(): onopen sends the
\* subscription message with the token, the interval a token-only message,
\* both on the channel onopen was given.
Subscribe(w) == [kind |-> "subscribe", channel |-> w]
TokenOnly(w) == [kind |-> "token", channel |-> w]

\* ws.send(JSON.stringify({...msg, token})) or ws.send(JSON.stringify({token}))
\* in the .then() callback k: a WebSocket that is no longer open drops the
\* data without raising an error.
Send(k, tok) ==
    /\ lastSent' = Some([channel |-> k.channel, kind |-> k.kind,
                          token |-> tok,
                          delivered |-> attempts'[k.channel].sock = "open"])
    /\ sentCount' = [sentCount EXCEPT ![k.channel][k.kind] = @ + 1]

\* getIdToken().then(k): when the token is cached the promise is already
\* resolved and the callback runs in the same turn of the event loop.
GetIdTokenThen(k) ==
    /\ GetIdTokenCall(Some(k))
    /\ IF Branch(idToken, authTime, exp, now) = "cache"
       THEN Send(k, idToken)
       ELSE UNCHANGED <<lastSent, sentCount>>

\* The application's onopen(ws), called by ws.onopen of transport s: ask for
\* a token to subscribe with, and set the 60 s interval.
AppOpen(s) ==
    /\ OnOpenEvent(s)
    /\ GetIdTokenThen(Subscribe(ws))
    /\ intervals' = Append(intervals, [channel |-> ws, due |-> now + 60])
    /\ UNCHANGED overdue

\* The setInterval callback of interval i, every 60 s.
IntervalFire(i) ==
    /\ i \in DOMAIN intervals
    /\ intervals[i].due = now
    /\ UNCHANGED connVars
    /\ GetIdTokenThen(TokenOnly(intervals[i].channel))
    /\ intervals' = [intervals EXCEPT ![i].due = @ + 60]
    /\ UNCHANGED overdue

\* getIdToken().then(token => void ws.send(...)): the callback runs when the
\* call fulfils; a call that rejects skips it (no rejection handler is given).
ThenAlways(k, ev) == k # None
ThenRuns(k, ev) == k # None /\ ev = "return"

\* The response of pending call s, one of the set R, arrives: the call
\* resolves and its .then() callback sends, or the call rejects and the
\* callback does not run.
AppResponseFrom(s, R) ==
    /\ s \in DOMAIN pending
    /\ UNCHANGED connVars
    /\ \E resp \in R :
        /\ ResponseArrives(s, resp)
        /\ IF ThenRuns(pending[s].then, last'.event)
           THEN Send(pending[s].then[1], last'.ret)
           ELSE UNCHANGED <<lastSent, sentCount>>
    /\ UNCHANGED <<intervals, overdue>>

AppResponse(s) == s \in DOMAIN pending /\ AppResponseFrom(s, IdpResponses(s))

\* Time passes to the next instant of the grid, once every interval due now
\* has run. The clock starts at the first onopen: before it the application
\* reads no clock and has set no timer. A command still unanswered 60 s
\* after it was sent is overdue.
AppAdvance(grid) ==
    /\ onOpenCalls # <<>>
    /\ \A i \in DOMAIN intervals : intervals[i].due > now
    /\ Advance(grid)
    /\ overdue' = (overdue \/ \E k \in DOMAIN pending :
                                  now' - pending[k].at >= 60)
    /\ UNCHANGED connVars
    /\ UNCHANGED <<intervals, lastSent, sentCount>>

\* The instants of the application's clock: the interval period.
ShortInstants == {0, 60, 120}
AppTick == AppAdvance(ShortInstants)

\* ============================================================ specifications

\* The connection manager alone (the credential manager built, never called).
InitConn == ConnInit /\ AuthInit /\ AppInit /\ lifetime = 3600
NextConn ==
    \/ Connect
    \/ \E t \in 1..MaxAttempts : WatchdogFire(t)
    \/ \E s \in 1..MaxAttempts : TransportOpen(s)
    \/ \E s \in 1..MaxAttempts : TransportMessage(s)
    \/ \E s \in 1..MaxAttempts : TransportClose(s)
SpecConn == InitConn /\ [][NextConn]_vars

\* The credential manager alone (connect() never called).
InitAuth == ConnInit /\ variant = "pool" /\ AuthInit /\ AppInit
NextAuth ==
    \/ Tick
    \/ GetIdToken
    \/ \E s \in 1..MaxPending : Response(s)
SpecAuth == InitAuth /\ [][NextAuth]_vars

\* The connection manager facing servers that keep a promise: every server
\* of `accepting` opens each transport within `handshake` seconds of its
\* creation, the others never open. An open may come at any time up to the
\* promised one, so the watchdog of an attempt to an accepting server can
\* fire only when it is not longer than the promise. Timers and transport
\* events are eventually delivered by the event loop (weak fairness).
PromisedOpen(s) ==
    /\ s \in DOMAIN attempts
    /\ attempts[s].server \in accepting
    /\ TransportOpen(s)
PromisedWatchdog(t) ==
    /\ t \in DOMAIN attempts
    /\ ~(attempts[t].server \in accepting /\ handshake < attempts[t].delay)
    /\ WatchdogFire(t)
Refusal(s) ==
    /\ s \in DOMAIN attempts
    /\ attempts[s].server \notin accepting
    /\ attempts[s].sock = "connecting"
    /\ TransportClose(s)
InitLive ==
    /\ variant \in {"single", "pool"}
    /\ accepting \in (SUBSET (0..(Len(Pool) - 1))) \ {{}}
    /\ handshake \in 1..MaxHandshake
    /\ ModuleLoad
    /\ AuthInit
    /\ AppInit
    /\ lifetime = 3600
NextLive ==
    \/ Connect
    \/ \E t \in 1..MaxAttempts : PromisedWatchdog(t)
    \/ \E s \in 1..MaxAttempts : PromisedOpen(s)
    \/ \E s \in 1..MaxAttempts : Refusal(s)
    \/ \E s \in 1..MaxAttempts : TransportMessage(s)
FairLive ==
    /\ \A t \in 1..MaxAttempts : WF_vars(PromisedWatchdog(t))
    /\ \A s \in 1..MaxAttempts : WF_vars(PromisedOpen(s))
SpecLive == InitLive /\ [][NextLive]_vars /\ FairLive

\* The application (subscribe_simple): connect(onopen, onmessage) with the
\* credential manager behind onopen and its interval. Its onmessage only
\* prints the frame, so frames are left out.
InitApp == ConnInit /\ AuthInit /\ AppInit
NextApp ==
    \/ Connect
    \/ \E t \in 1..MaxAttempts : WatchdogFire(t)
    \/ \E s \in 1..MaxAttempts : AppOpen(s)
    \/ \E s \in 1..MaxAttempts : TransportClose(s)
    \/ AppTick
    \/ \E i \in 1..MaxAttempts : IntervalFire(i)
    \/ \E s \in 1..MaxPending : AppResponse(s)
SpecApp == InitApp /\ [][NextApp]_vars

\* The application facing an identity provider whose calls succeed: it
\* answers every command with a well-formed token, at one of the instants
\* (30 s apart) up to MaxLatency after the command was sent. The clock runs
\* for a little over the 3600 s ceiling when every command is answered
\* within 60 s, and up to MaxOverdueTime otherwise. The watchdog is left out: attempts
\* that fail before the open change nothing but the number of the channel
\* onopen gets.
LongInstants == {30 * k : k \in 0..124}
ValidResponses(s) ==
    {r \in IdpResponses(s) : r.ok /\ r.IdToken[1].payload # None}
ValidResponse(s) ==
    /\ s \in DOMAIN pending
    /\ AppResponseFrom(s, ValidResponses(s))
FreshTick ==
    /\ \A k \in DOMAIN pending : now + 30 - pending[k].at <= MaxLatency
    /\ overdue => now < MaxOverdueTime
    /\ AppAdvance(LongInstants)
InitFresh == ConnInit /\ AuthInit /\ AppInit
NextFresh ==
    \/ Connect
    \/ \E s \in 1..MaxAttempts : AppOpen(s)
    \/ \E s \in 1..MaxAttempts : TransportClose(s)
    \/ FreshTick
    \/ \E i \in 1..MaxAttempts : IntervalFire(i)
    \/ \E s \in 1..MaxPending : ValidResponse(s)
SpecFresh == InitFresh /\ [][NextFresh]_vars

\* ==================================================================== claims

\* The latest step was a getIdToken() call: `now` is the time of the call and
\* the credential is the one the call saw.
CallJustMade == last.event \in {"call", "return"} /\ last.resp = None
\* The latest step was the arrival of a response.
ResponseJustHandled == last.resp # None
\* The command the call just made has sent.
SentCommand == pending[Len(pending)].sent

OnOpenCallsFor(i) == {k \in DOMAIN onOpenCalls : onOpenCalls[k].channel = i}

\* C1: an attempt whose transport signalled open has had its watchdog
\* cancelled (it never fires) and has had onopen invoked exactly once, by its
\* own open event and with its own transport as the channel; an attempt
\* whose transport did not open has had no onopen.
C1_OnOpenExactlyOnce ==
    \A i \in DOMAIN attempts :
        IF attempts[i].opened
        THEN /\ attempts[i].timer = "cleared"
             /\ Cardinality(OnOpenCallsFor(i)) = 1
             /\ \A k \in OnOpenCallsFor(i) : onOpenCalls[k].by = i
        ELSE OnOpenCallsFor(i) = {}

\* An attempt opened after an earlier attempt's watchdog had fired.
C1_Witness ==
    \E i \in DOMAIN attempts :
        /\ i > 1
        /\ attempts[i].opened
        /\ attempts[1].timer = "fired"
        /\ onOpenCalls # <<>>

\* C2: attempt number i (0-based) targets the endpoint at index
\* (start + i) mod N, start being the index drawn at connect(), within
\* [0, N); with a single endpoint every attempt targets it.
C2_EndpointRotation ==
    /\ startIndex \in 0..(Len(Pool) - 1)
    /\ \A i \in DOMAIN attempts :
        /\ attempts[i].server = (startIndex + (i - 1)) % Len(Pool)
        /\ attempts[i].url = Pool[attempts[i].server + 1]
    /\ variant = "single" => \A i \in DOMAIN attempts : attempts[i].url = SERVER

\* The pool started at its last endpoint and has wrapped around twice.
C2_Witness ==
    /\ variant = "pool"
    /\ startIndex = 1
    /\ Len(attempts) >= 4
    /\ attempts[2].server = 0
    /\ attempts[3].server = 1

\* C3: the watchdog of attempt i (0-based) lasts 1 + i seconds, and
\* openTimeout is always the number of attempts made: it grows by one per
\* attempt, without a cap, and an open does not change it.
C3_BackoffGrowth ==
    /\ \A i \in DOMAIN attempts : attempts[i].delay = i
    /\ openTimeout = IF started THEN Len(attempts) ELSE 1

\* The third attempt opened and openTimeout stayed 3.
C3_Witness ==
    /\ Len(attempts) = 3
    /\ attempts[3].opened
    /\ attempts[3].delay = 3
    /\ openTimeout = 3

\* C4: a call made while a token is stored, strictly before
\* min(authTime + 3600, exp - 120), returns the stored token and sends no
\* command.
C4_TokenCaching ==
    (/\ CallJustMade
     /\ idToken # None /\ authTime # None /\ exp # None
     /\ now < authTime[1] + 3600
     /\ now < exp[1] - 120)
    => /\ last.event = "return"
       /\ last.branch = "cache"
       /\ last.nsent = 0
       /\ last.ret = idToken

\* A cached return some time after the login.
C4_Witness ==
    /\ CallJustMade
    /\ last.branch = "cache"
    /\ idToken # None /\ authTime # None /\ exp # None
    /\ now > authTime[1]
    /\ now < authTime[1] + 3600
    /\ now < exp[1] - 120
    /\ last.ret = idToken

\* C5 as stated: a call made at or after authTime + 3600 logs in.
C5_LoginFromCeiling ==
    (/\ CallJustMade
     /\ idToken # None /\ authTime # None
     /\ now >= authTime[1] + 3600)
    => /\ last.event = "call"
       /\ last.branch = "login"
       /\ SentCommand = UserPasswordCommand

\* C5 amended: a call made strictly after authTime + 3600 logs in with the
\* username and password, whatever the expiry.
C5_LoginPastCeiling ==
    (/\ CallJustMade
     /\ idToken # None /\ authTime # None
     /\ now > authTime[1] + 3600)
    => /\ last.event = "call"
       /\ last.branch = "login"
       /\ last.nsent = 1
       /\ SentCommand = UserPasswordCommand

\* A login forced by the ceiling while the stored token has not expired.
C5_Witness ==
    /\ CallJustMade
    /\ idToken # None /\ authTime # None /\ exp # None
    /\ now > authTime[1] + 3600
    /\ now < exp[1]
    /\ last.branch = "login"

\* A refresh made by a call that returned: the stored expiry is later than
\* the one the call saw.
RefreshRaisesExpiry ==
    (ResponseJustHandled /\ last.event = "return" /\ last.branch = "refresh")
    => /\ last.pre.exp # None /\ exp # None
       /\ exp[1] > last.pre.exp[1]

\* C6 as stated: a call made in [exp - 120, exp), before authTime + 3600,
\* refreshes with the stored refresh token, and the refresh raises the
\* stored expiry.
C6_RefreshFromMargin ==
    /\ (/\ CallJustMade
        /\ idToken # None /\ authTime # None /\ exp # None
        /\ now < authTime[1] + 3600
        /\ now >= exp[1] - 120
        /\ now < exp[1])
       => /\ last.event = "call"
          /\ last.branch = "refresh"
          /\ SentCommand = RefreshCommand(refreshToken)
    /\ RefreshRaisesExpiry

\* C6 amended: the same for a call made in (exp - 120, exp), with fewer than
\* 120 s left.
C6_RefreshInsideMargin ==
    /\ (/\ CallJustMade
        /\ idToken # None /\ authTime # None /\ exp # None
        /\ now < authTime[1] + 3600
        /\ now > exp[1] - 120
        /\ now < exp[1])
       => /\ last.event = "call"
          /\ last.branch = "refresh"
          /\ last.nsent = 1
          /\ refreshToken # None
          /\ SentCommand = RefreshCommand(refreshToken)
    /\ RefreshRaisesExpiry

\* A refresh returned, before the expiry its call saw (so the call was made
\* with fewer than 120 s left and before that expiry), with a later expiry.
C6_Witness ==
    /\ ResponseJustHandled
    /\ last.event = "return"
    /\ last.branch = "refresh"
    /\ last.pre.exp # None /\ exp # None /\ authTime # None
    /\ now < last.pre.exp[1]
    /\ now < authTime[1] + 3600
    /\ exp[1] > last.pre.exp[1]

\* C7: a call made while no token is stored sends one login command with
\* the username and password of the closure and no refresh, does not return
\* before the response, and when it returns it returns the id token of its
\* own response, whose claims are then the stored authTime and exp.
C7_FirstLogin ==
    /\ (CallJustMade /\ idToken = None)
       => /\ last.event = "call"
          /\ last.branch = "login"
          /\ last.nsent = 1
          /\ SentCommand = UserPasswordCommand
    /\ (last.event \in {"return", "throw"} /\ ~last.pre.hadToken)
       => /\ last.branch = "login"
          /\ last.nsent = 1
          /\ last.resp # None
          /\ last.event = "return"
             => /\ last.resp[1].ok
                /\ last.ret = last.resp[1].IdToken
                /\ idToken = last.ret
                /\ last.ret[1].payload # None
                /\ authTime = Some(last.ret[1].payload[1].auth_time)
                /\ exp = Some(last.ret[1].payload[1].exp)

\* The first login returned its token.
C7_Witness ==
    /\ last.event = "return"
    /\ ~last.pre.hadToken
    /\ last.branch = "login"
    /\ last.ret # None
    /\ last.ret = idToken

\* C8 as stated: at most one command to the identity provider is awaited at
\* any moment.
C8_OneRequestInFlight == Len(pending) <= 1

\* C9 as stated: between events the stored authTime and exp are the claims of
\* the stored id token (and absent when no token is stored).
C9_CredentialAtomic ==
    IF idToken = None
    THEN authTime = None /\ exp = None
    ELSE /\ idToken[1].payload # None
         /\ authTime = Some(idToken[1].payload[1].auth_time)
         /\ exp = Some(idToken[1].payload[1].exp)

\* C10: no call sends more than one command, and a call whose command got an
\* error response rejects: it returns no token.
C10_FailurePropagates ==
    /\ \A k \in DOMAIN pending : pending[k].nsent = 1
    /\ last.nsent <= 1
    /\ (ResponseJustHandled /\ ~last.resp[1].ok)
       => /\ last.event = "throw"
          /\ last.ret = None

\* A login failed while a token was stored that could have been returned.
C10_Witness ==
    /\ ResponseJustHandled
    /\ ~last.resp[1].ok
    /\ last.event = "throw"
    /\ last.branch = "login"
    /\ idToken # None

\* C11: once connect() has run, onopen is eventually invoked when some server
\* accepts every attempt within a finite time (which may exceed the first
\* watchdog); and every watchdog expiry has been followed by a new attempt.
C11_EventuallyOpen ==
    /\ started ~> (onOpenCalls # <<>>)
    /\ [](\A i \in DOMAIN attempts :
            attempts[i].timer = "fired" => i < Len(attempts))

\* onopen was invoked although the servers take longer than the first
\* watchdog and the first attempt failed.
C11_Witness ==
    /\ handshake > 1
    /\ onOpenCalls # <<>>
    /\ attempts[1].timer = "fired"

\* C12: a transport that opened and later closed is followed by a new
\* connection attempt.
C12_ReconnectAfterClose ==
    \A i \in DOMAIN attempts :
        (attempts[i].opened /\ attempts[i].sock = "closed")
            => Len(attempts) > i

\* C13: no attempt has both its watchdog step taken and an onopen call; a
\* watchdog is cancelled only by the open of its own attempt, and the
\* transport of an attempt whose watchdog fired can no longer raise open
\* once the next attempt exists.
C13_WatchdogOpenExclusive ==
    /\ \A i \in DOMAIN attempts :
          /\ ~(attempts[i].timer = "fired" /\ attempts[i].opened)
          /\ attempts[i].timer = "fired" => attempts[i].sock = "closed"
          /\ attempts[i].timer = "cleared" => attempts[i].opened
    /\ \A k \in DOMAIN onOpenCalls :
          /\ attempts[onOpenCalls[k].by].timer = "cleared"
          /\ onOpenCalls[k].channel = onOpenCalls[k].by

\* The watchdog of the first attempt fired, the second attempt opened and
\* cancelled its own watchdog.
C13_Witness ==
    /\ Len(attempts) = 2
    /\ attempts[1].timer = "fired"
    /\ attempts[2].timer = "cleared"
    /\ Len(onOpenCalls) = 1
    /\ onOpenCalls[1].by = 2

\* C14: every onmessage call made for a transport comes after the onopen
\* call made for that transport (at any moment, each logged onmessage call
\* has its transport's onopen call already logged).
C14_OpenBeforeMessage ==
    \A m \in DOMAIN onMessageCalls :
        \E k \in DOMAIN onOpenCalls :
            /\ onOpenCalls[k].by = onMessageCalls[m].by
            /\ onOpenCalls[k].channel = onMessageCalls[m].channel

\* A transport reached after a failed attempt delivered a message.
C14_Witness ==
    /\ onMessageCalls # <<>>
    /\ onMessageCalls[1].by = 2
    /\ attempts[2].opened

\* Number of watchdog expiries so far.
Expiries == Cardinality({i \in DOMAIN attempts : attempts[i].timer = "fired"})

\* C15: once onopen has been invoked after k watchdog expiries, serverIndex
\* is (start + k) mod N, openTimeout is 1 + k, the open transport is the one
\* to that endpoint, and onopen has been invoked exactly once in total.
C15_OpenKeepsIndexAndDelay ==
    onOpenCalls # <<>> =>
        /\ Len(onOpenCalls) = 1
        /\ serverIndex = (startIndex + Expiries) % Len(Pool)
        /\ openTimeout = 1 + Expiries
        /\ attempts[onOpenCalls[1].by].server = serverIndex
        /\ attempts[onOpenCalls[1].by].delay = openTimeout
        /\ onOpenCalls[1].channel = Len(attempts)

\* Pool [A, B], start 0: A's attempt expired, B's opened; one onopen call
\* with B active and openTimeout 2.
C15_Witness ==
    /\ variant = "pool"
    /\ startIndex = 0
    /\ Len(attempts) = 2
    /\ attempts[1].timer = "fired"
    /\ attempts[1].url = SERVER_LIST[1]
    /\ attempts[2].opened
    /\ attempts[2].url = SERVER_LIST[2]
    /\ Len(onOpenCalls) = 1
    /\ serverIndex = 1
    /\ openTimeout = 2

\* C16: discarding the previous transport never stops the retry loop: once
\* connect() has run there is a current attempt, every expired watchdog was
\* followed by a new attempt, and the newest attempt got its own transport
\* (held by ws) and a watchdog that is armed until that transport opens.
C16_TeardownNeverInterrupts ==
    /\ started => Len(attempts) >= 1 /\ ws = Len(attempts)
    /\ \A i \in DOMAIN attempts :
          /\ attempts[i].timer = "fired" => i + 1 \in DOMAIN attempts
          /\ attempts[i].timer = "armed" => i = Len(attempts)
          /\ attempts[i].timer = "cleared" => attempts[i].opened
          /\ i > 1 => attempts[i - 1].sock = "closed"

\* Three attempts were made: the first found no transport, the second one
\* that never opened, the third one that had already closed.
C16_Witness ==
    /\ Len(attempts) >= 3
    /\ attempts[1].prev = "absent"
    /\ attempts[2].prev = "connecting"
    /\ attempts[3].prev = "closed"
    /\ attempts[3].timer = "armed"

\* C17: the step that handles a watchdog expiry (the only step that adds an
\* attempt once connect() has run) calls neither onopen nor onmessage and
\* leaves connect() completed; all it does is rotate serverIndex, add one to
\* openTimeout and start a new attempt with these values.
C17_FailureNotSurfaced ==
    [][(started /\ Len(attempts') = Len(attempts) + 1) =>
        /\ onOpenCalls' = onOpenCalls
        /\ onMessageCalls' = onMessageCalls
        /\ started'
        /\ startIndex' = startIndex
        /\ serverIndex' = (serverIndex + 1) % Len(Pool)
        /\ openTimeout' = openTimeout + 1
        /\ ws' = Len(attempts')
        /\ attempts'[ws'].server = serverIndex'
        /\ attempts'[ws'].delay = openTimeout'
        /\ attempts'[ws'].timer = "armed"
        /\ attempts'[ws'].sock = "connecting"
        /\ \A i \in DOMAIN attempts :
              attempts'[i].opened = attempts[i].opened]_vars

\* Two attempts failed and the application has not been called.
C17_Witness ==
    /\ Len(attempts) = 3
    /\ attempts[1].timer = "fired"
    /\ attempts[2].timer = "fired"
    /\ onOpenCalls = <<>>
    /\ onMessageCalls = <<>>
    /\ openTimeout = 3

\* Transports that are connecting or open.
Live == {i \in DOMAIN attempts : attempts[i].sock \in {"connecting", "open"}}

\* C18: at most one transport is connecting or open, and it can only be the
\* newest one: every earlier transport was closed before the next was made.
C18_OneLiveTransport ==
    /\ Cardinality(Live) <= 1
    /\ \A i \in Live : i = Len(attempts)

\* A second transport is live after the first, still connecting when its
\* watchdog expired, was discarded.
C18_Witness ==
    /\ Len(attempts) = 2
    /\ attempts[2].prev = "connecting"
    /\ attempts[1].sock = "closed"
    /\ Live = {2}

\* A call was just made d seconds after the issuance of a stored token whose
\* expiry is 130 s after its issuance.
CallAfterShortLogin(d) ==
    /\ CallJustMade
    /\ idToken # None /\ authTime # None /\ exp # None
    /\ exp[1] = authTime[1] + 130
    /\ now = authTime[1] + d

\* The call just made sent one refresh command and is waiting.
RenewalStarted ==
    /\ last.event = "call"
    /\ last.branch = "refresh"
    /\ last.nsent = 1
    /\ SentCommand = RefreshCommand(refreshToken)

\* C19 as stated: with a token expiring 130 s after the login, the call 15 s
\* after the login returns the stored token and sends nothing, the call
\* 20 s after the login renews and returns a token with a later expiry.
C19_CachedAt15RenewedAt20 ==
    /\ CallAfterShortLogin(15) =>
          /\ last.event = "return"
          /\ last.branch = "cache"
          /\ last.nsent = 0
          /\ last.ret = idToken
    /\ CallAfterShortLogin(20) => RenewalStarted
    /\ RefreshRaisesExpiry

\* C19 amended: the call made at the login time returns the stored token and
\* sends nothing; the calls 15 s and 20 s after the login both renew (115 s
\* and 110 s are left, fewer than 120), and a renewal that returns has stored
\* a strictly later expiry and returns the stored token.
C19_RenewedAt15AndAt20 ==
    /\ CallAfterShortLogin(0) =>
          /\ last.event = "return"
          /\ last.branch = "cache"
          /\ last.nsent = 0
          /\ last.ret = idToken
    /\ CallAfterShortLogin(15) => RenewalStarted
    /\ CallAfterShortLogin(20) => RenewalStarted
    /\ RefreshRaisesExpiry
    /\ (ResponseJustHandled /\ last.event = "return"
            /\ last.branch = "refresh")
       => last.ret = idToken

\* The renewal called 15 s after a login at 0 that gave a 130 s token has
\* returned, with an expiry later than 130.
C19_Witness ==
    /\ lifetime = 130
    /\ now = 15
    /\ authTime = Some(0)
    /\ ResponseJustHandled
    /\ last.event = "return"
    /\ last.branch = "refresh"
    /\ last.pre.exp = Some(130)
    /\ exp # None
    /\ exp[1] > 130
    /\ last.ret = idToken

\* C20: the id token is stored exactly when the expiry is stored.
C20_TokenIffExpiry == (idToken = None) <=> (exp = None)

\* C23: the step in which connect() runs and returns creates exactly one
\* transport, still connecting, arms exactly one watchdog, of 1 s, and calls
\* neither onopen nor onmessage.
C23_ConnectReturnsAtOnce ==
    [][(~started /\ started') =>
        /\ Len(attempts') = 1
        /\ attempts'[1].sock = "connecting"
        /\ ~attempts'[1].opened
        /\ attempts'[1].timer = "armed"
        /\ attempts'[1].delay = 1
        /\ attempts'[1].url \in {Pool[i] : i \in DOMAIN Pool}
        /\ ws' = 1
        /\ connectionTimeoutTimer' = 1
        /\ onOpenCalls' = <<>>
        /\ onMessageCalls' = <<>>]_vars

\* connect() has returned and no event has been delivered yet.
C23_Witness ==
    /\ started
    /\ Len(attempts) = 1
    /\ attempts[1].sock = "connecting"
    /\ attempts[1].timer = "armed"
    /\ attempts[1].prev = "absent"
    /\ onOpenCalls = <<>>
    /\ onMessageCalls = <<>>

\* C24: a step that delivers a frame calls onmessage once, for an open
\* transport, and changes nothing else: no transport changes state, no
\* watchdog is armed, fired or cleared, serverIndex and openTimeout keep
\* their values, no attempt is added and onopen is not called.
C24_MessageChangesNothing ==
    [][(onMessageCalls' # onMessageCalls) =>
        /\ Len(onMessageCalls') = Len(onMessageCalls) + 1
        /\ \A m \in DOMAIN onMessageCalls :
              onMessageCalls'[m] = onMessageCalls[m]
        /\ attempts[onMessageCalls'[Len(onMessageCalls')].by].sock = "open"
        /\ attempts' = attempts
        /\ connectionTimeoutTimer' = connectionTimeoutTimer
        /\ serverIndex' = serverIndex
        /\ openTimeout' = openTimeout
        /\ ws' = ws
        /\ onOpenCalls' = onOpenCalls]_vars

\* Two frames were delivered on a transport that is still open.
C24_Witness ==
    /\ Len(onMessageCalls) = 2
    /\ onMessageCalls[1].by = onMessageCalls[2].by
    /\ attempts[onMessageCalls[2].by].sock = "open"

\* Watchdog timers that are armed.
Armed == {i \in DOMAIN attempts : attempts[i].timer = "armed"}

\* C28: between events at most one watchdog is armed; once connect() has run
\* the watchdog of the current transport is armed exactly when that
\* transport has not signalled open, and no other watchdog is; the handle in
\* connectionTimeoutTimer is that of the armed watchdog, or null.
C28_OneWatchdog ==
    /\ Cardinality(Armed) <= 1
    /\ ~started => Armed = {}
    /\ started =>
          /\ Armed \subseteq {ws}
          /\ (ws \in Armed) <=> ~attempts[ws].opened
          /\ connectionTimeoutTimer = (IF ws \in Armed THEN ws ELSE 0)

\* The second transport opened: no watchdog is armed and the handle is null.
C28_Witness ==
    /\ Len(attempts) = 2
    /\ attempts[1].timer = "fired"
    /\ attempts[2].opened
    /\ Armed = {}
    /\ connectionTimeoutTimer = 0

\* C29: a step that calls onopen or onmessage passes as the channel the
\* transport that raised the event, and that transport is open when the
\* callback runs (never the newer transport that is still connecting).
C29_ChannelIsEventSource ==
    [][/\ (onOpenCalls' # onOpenCalls) =>
            LET c == onOpenCalls'[Len(onOpenCalls')]
            IN /\ c.channel = c.by
               /\ attempts'[c.channel].sock = "open"
       /\ (onMessageCalls' # onMessageCalls) =>
            LET c == onMessageCalls'[Len(onMessageCalls')]
            IN /\ c.channel = c.by
               /\ attempts'[c.channel].sock = "open"]_vars

\* The first transport was replaced while connecting; the second one opened
\* and delivered a frame, both callbacks got the second transport.
C29_Witness ==
    /\ Len(attempts) = 2
    /\ attempts[2].prev = "connecting"
    /\ onOpenCalls = <<[by |-> 2, channel |-> 2]>>
    /\ onMessageCalls # <<>>
    /\ onMessageCalls[1] = [by |-> 2, channel |-> 2]

\* C25: a call made while a token is stored whose issuance is more than
\* 3600 s ago, with fewer than 120 s left or the expiry passed, sends one
\* login command and no refresh command; no call ever sends two commands,
\* and each awaited command is the one of its call's branch.
C25_LoginBeforeRenewal ==
    /\ (/\ CallJustMade
        /\ idToken # None /\ authTime # None /\ exp # None
        /\ now - authTime[1] > 3600
        /\ exp[1] - now < 120)
       => /\ last.event = "call"
          /\ last.branch = "login"
          /\ last.nsent = 1
          /\ SentCommand = UserPasswordCommand
          /\ SentCommand.AuthFlow # "REFRESH_TOKEN_AUTH"
    /\ last.nsent <= 1
    /\ \A k \in DOMAIN pending :
          /\ pending[k].nsent = 1
          /\ pending[k].branch = "login"
                => pending[k].sent.AuthFlow = "USER_PASSWORD_AUTH"
          /\ pending[k].branch = "refresh"
                => pending[k].sent.AuthFlow = "REFRESH_TOKEN_AUTH"

\* A login by a call made past the ceiling when the stored token had
\* already expired.
C25_Witness ==
    /\ CallJustMade
    /\ idToken # None /\ authTime # None /\ exp # None
    /\ now - authTime[1] > 3600
    /\ exp[1] < now
    /\ last.branch = "login"
    /\ SentCommand = UserPasswordCommand

\* C26: a call made while a token is stored that was issued less than 3600 s
\* ago and has fewer than 120 s left (or has expired) sends one refresh
\* command with the stored refresh token and no login command; a refresh
\* that returns has stored its response's id token and that token's claims.
C26_RenewalUnderCeiling ==
    /\ (/\ CallJustMade
        /\ idToken # None /\ authTime # None /\ exp # None
        /\ now - authTime[1] < 3600
        /\ exp[1] - now < 120)
       => /\ RenewalStarted
          /\ refreshToken # None
          /\ SentCommand.AuthFlow # "USER_PASSWORD_AUTH"
    /\ (ResponseJustHandled /\ last.event = "return"
            /\ last.branch = "refresh")
       => /\ last.resp[1].ok
          /\ idToken = last.resp[1].IdToken
          /\ idToken[1].payload # None
          /\ authTime = Some(idToken[1].payload[1].auth_time)
          /\ exp = Some(idToken[1].payload[1].exp)

\* A refresh by a call made under the ceiling after the stored token had
\* expired.
C26_Witness ==
    /\ CallJustMade
    /\ idToken # None /\ authTime # None /\ exp # None
    /\ now - authTime[1] < 3600
    /\ exp[1] < now
    /\ last.branch = "refresh"
    /\ SentCommand = RefreshCommand(refreshToken)

\* C27: a step in which a renewal's response is handled leaves refreshToken
\* as it was, and refreshToken is written only by a step in which a
\* login's response is handled and that login succeeds (its call returns).
C27_RenewalTokenFrame ==
    [][/\ (last'.resp # None /\ last'.branch = "refresh")
            => refreshToken' = refreshToken
       /\ (refreshToken' # refreshToken)
            => /\ last'.resp # None
               /\ last'.branch = "login"
               /\ last'.event = "return"]_vars

\* C30: when a call's command got an error response, the stored credential
\* is the one the call saw when it was made.
C30_FailureRestoresCredential ==
    (ResponseJustHandled /\ ~last.resp[1].ok) => last.pre = Seen

\* The getIdToken() call of onopen for channel c is still awaiting its
\* response in pending sequence q.
SubscribeAwaited(q, c) ==
    \E k \in DOMAIN q : q[k].then = Some(Subscribe(c))

\* C22: each onopen is followed by at most one subscribe message on its
\* channel, sent when its getIdToken() call returns and carrying the token
\* returned; and no token-only message is sent on a channel while the
\* subscribe of that channel is still waiting for its token.
C22_SubscribeFirst ==
    [][\A c \in DOMAIN attempts :
        /\ sentCount'[c].subscribe <= Cardinality(OnOpenCallsFor(c)')
        /\ (\E s \in DOMAIN pending :
                /\ pending' = Without(pending, s)
                /\ pending[s].then = Some(Subscribe(c))
                /\ last'.event = "return")
           => /\ sentCount'[c].subscribe = sentCount[c].subscribe + 1
              /\ lastSent' = Some([channel |-> c, kind |-> "subscribe",
                                   token |-> last'.ret,
                                   delivered |-> attempts[c].sock = "open"])
              /\ last'.ret # None
        /\ (sentCount'[c].token > sentCount[c].token)
           => ~SubscribeAwaited(pending', c)]_vars

\* A message was sent and arrived on a channel that is still open.
SessionHeld ==
    /\ lastSent # None
    /\ lastSent[1].delivered
    /\ attempts[lastSent[1].channel].sock = "open"

\* The expiry of the token most recently sent.
SentExpiry == lastSent[1].token[1].payload[1].exp

\* C21 as stated: when the identity provider's calls succeed and tokens
\* last more than 120 s, the token most recently sent on the open channel
\* has not reached its expiry.
C21_SessionFresh == SessionHeld => now < SentExpiry

\* C21 amended: the same when, in addition, every command was answered less
\* than 60 s after it was sent: the token most recently sent on the open
\* channel has not expired, at every instant and at every moment of the
\* time that passes between two instants.
C21_FreshWhenPrompt ==
    /\ []((SessionHeld /\ ~overdue) => now < SentExpiry)
    /\ [][(now' # now /\ SessionHeld /\ ~overdue') => now' <= SentExpiry]_vars

\* The session has outlived the 3600 s ceiling: the token most recently sent
\* on the open channel comes from a second login.
C21_Witness ==
    /\ SessionHeld
    /\ ~overdue
    /\ now > 3600
    /\ lastSent[1].kind = "token"
    /\ lastSent[1].token[1].payload[1].auth_time > 0
    /\ lastSent[1].token = idToken
    /\ now < SentExpiry

\* C31: no step lowers a stored expiry.
C31_ExpiryNeverDecreases ==
    [][(exp # None /\ exp' # None) => exp'[1] >= exp[1]]_vars

\* C32: whenever getIdToken() returns without sending a command, what it
\* returns is the stored token, the stored exp is at least 120 s ahead and
\* the stored authTime is at most 3600 s back, other calls being in flight
\* or not.
C32_CacheReturnIsFresh ==
    (CallJustMade /\ last.branch = "cache") =>
        /\ last.event = "return"
        /\ last.nsent = 0
        /\ last.ret # None
        /\ last.ret = idToken
        /\ exp # None
        /\ exp[1] - now >= 120
        /\ authTime # None
        /\ now - authTime[1] <= 3600

\* A call answered from the stored credential, which a renewal has
\* replaced, while a second renewal made along with that one still awaits
\* its response.
C32_Witness ==
    /\ CallJustMade
    /\ last.branch = "cache"
    /\ \E i \in DOMAIN pending :
        /\ pending[i].branch = "refresh"
        /\ pending[i].pre.exp # exp

\* Every REFRESH_TOKEN_AUTH command awaiting its response carries a refresh
\* token, and a stored id token comes with a stored refresh token.
RenewalTokenHeld ==
    /\ \A i \in DOMAIN pending :
        pending[i].branch = "refresh" =>
            /\ pending[i].sent.AuthFlow = "REFRESH_TOKEN_AUTH"
            /\ pending[i].sent.REFRESH_TOKEN # None
    /\ idToken # None => refreshToken # None

\* C33: no renewal is sent without a refresh token; in every state a stored
\* id token implies a stored refresh token; a login that succeeds stores a
\* refresh token, and no step makes a stored refresh token absent again.
C33_RenewalTokenStays ==
    /\ []RenewalTokenHeld
    /\ [][/\ refreshToken # None => refreshToken' # None
          /\ (last'.resp # None /\ last'.branch = "login"
                /\ last'.event = "return") => refreshToken' # None
          /\ (last'.event = "call" /\ last'.branch = "refresh") =>
                /\ refreshToken # None
                /\ pending'[Len(pending')].sent =
                        RefreshCommand(refreshToken)]_vars

\* A renewal awaits its response, sent with the refresh token of the first
\* login, after a later response of a renewal has been handled.
C33_Witness ==
    /\ ResponseJustHandled
    /\ last.branch = "refresh"
    /\ last.event = "return"
    /\ refreshToken # None
    /\ \E i \in DOMAIN pending :
        /\ pending[i].branch = "refresh"
        /\ pending[i].sent.REFRESH_TOKEN = refreshToken

\* C34: the token message most recently sent by the interval of onopen went
\* out on a channel that was open when it was sent, and at most one interval
\* is running.
C34_RefreshOnlyOnOpenChannel ==
    /\ (lastSent # None /\ lastSent[1].kind = "token") =>
            lastSent[1].delivered
    /\ Len(intervals) <= 1

\* C35: a step that sends a message is the return of a getIdToken() call,
\* and the message carries the token that call returned; a step in which a
\* call rejects sends nothing; no message sent carries an absent token.
C35_SendNeedsReturnedToken ==
    /\ [](lastSent # None => lastSent[1].token # None)
    /\ [][/\ (sentCount' # sentCount \/ lastSent' # lastSent) =>
                /\ last'.event = "return"
                /\ last'.ret # None
                /\ lastSent' # None
                /\ lastSent'[1].token = last'.ret
          /\ (pending' # pending /\ last'.event = "throw") =>
                UNCHANGED <<lastSent, sentCount>>]_vars

\* The call made for the subscription in onopen has just rejected and
\* nothing has been sent on any channel.
C35_Witness ==
    /\ ResponseJustHandled
    /\ last.event = "throw"
    /\ intervals # <<>>
    /\ lastSent = None
    /\ \A c \in DOMAIN sentCount :
        sentCount[c].subscribe = 0 /\ sentCount[c].token = 0

====
